---- MODULE Spec2Model ----
(***************************************************************************)
(* Model of the Mini GT product monitor: src/product_monitor.py (variant   *)
(* "pm": e-mail + Telegram, fail-safe entry point) and                     *)
(* src/productmonitor_telegram.py (variant "tg": Telegram only).           *)
(*                                                                         *)
(* Text is modelled as a sequence of tokens.  A token is an indivisible    *)
(* piece of text ("/", "product", "mini-gt", " - ", "'", ...); substring   *)
(* tests, split, strip and lower work on token sequences the way the       *)
(* Python string methods work on characters.  An optional value (None or a *)
(* value) is a sequence of length 0 or 1.                                  *)
(***************************************************************************)
EXTENDS Integers, Sequences, FiniteSets, TLC

VARIABLES
    variant,       \* which script is deployed: "pm" or "tg"
    env,           \* the environment the scheduler starts the script with
    file,          \* products_seen.json: <<>> when absent, <<text>> otherwise
    pc,            \* position of the run
    previous,      \* main: previous
    current,       \* fetch_all_products: all_products / main: current
    src,           \* index of the listing source being walked
    page,          \* loop variable of the page loop
    fetches,       \* per source: number of requests.get calls issued this run
    rawEmptyAt,    \* per source: first page that held zero raw candidates (0: none)
    added_keys,    \* main: added_keys
    removed_keys,  \* main: removed_keys
    message,       \* main: the report handed to the notifiers
    calls,         \* notifier invocations of this run
    exc,           \* the exception that left main, "none" when there is none
    exit,          \* "running", "ok" (exit 0) or "error" (exception left the process)
    fileAtStart,   \* the file as it was when the run started
    lastSaved,     \* <<S>>: the snapshot handed to the last save_products call
    candA, candB,  \* key-normalisation study: two raw candidates
    keyA, keyB     \* key-normalisation study: their keys, <<>> before normalisation

vars == <<variant, env, file, pc, previous, current, src, page, fetches,
          rawEmptyAt, added_keys, removed_keys, message, calls, exc,
          exit, fileAtStart, lastSaved, candA, candB, keyA, keyB>>

runVars == <<variant, env, file, pc, previous, current, src, page, fetches,
             rawEmptyAt, added_keys, removed_keys, message, calls, exc,
             exit, fileAtStart, lastSaved>>

-----------------------------------------------------------------------------
(* Bounds *)

\* MAX_PAGES is 30 in product_monitor.py and 10 in productmonitor_telegram.py;
\* the walker uses it only as the upper limit of range(1, MAX_PAGES + 1).
MaxPagesBound == 2

\* Largest number of product cards on one listing page.
MaxCards == 2

-----------------------------------------------------------------------------
(* Text as token sequences *)

None == <<>>
Some(x) == <<x>>

\* Python: pat in s
Contains(s, pat) ==
    \E i \in 1..(Len(s) - Len(pat) + 1) : SubSeq(s, i, i + Len(pat) - 1) = pat

\* Python: s.startswith(pat)
StartsWith(s, pat) ==
    Len(s) >= Len(pat) /\ SubSeq(s, 1, Len(pat)) = pat

\* Python: s.split(sep) for a one-token separator: the list of the pieces.
RECURSIVE SplitOn(_, _)
SplitOn(s, sep) ==
    IF \A i \in 1..Len(s) : s[i] # sep
    THEN <<s>>
    ELSE LET i == CHOOSE j \in 1..Len(s) :
                      s[j] = sep /\ \A k \in 1..(j - 1) : s[k] # sep
         IN  <<SubSeq(s, 1, i - 1)>> \o SplitOn(SubSeq(s, i + 1, Len(s)), sep)

IsSpace(t) == t = " "

\* Python: s.strip()
RECURSIVE Strip(_)
Strip(s) ==
    IF s = <<>> THEN s
    ELSE IF IsSpace(Head(s)) THEN Strip(Tail(s))
    ELSE IF IsSpace(s[Len(s)]) THEN Strip(SubSeq(s, 1, Len(s) - 1))
    ELSE s

LowerTok(t) ==
    CASE t = "M"  -> "m"
      [] t = "S1" -> "s1"
      [] t = "T1" -> "t1"
      [] OTHER    -> t

\* Python: s.lower()
Lower(s) == [i \in 1..Len(s) |-> LowerTok(s[i])]

-----------------------------------------------------------------------------
(* Helpers of the two scripts *)

ORIGIN == <<"https://www.karzanddolls.com">>

PACK_BOX == "Mini GT Box Pack"
PACK_BLISTER == "Mini GT Blister Pack"

\* The listing sources in iteration order (LISTING_URLS / URLS).
Sources == <<PACK_BLISTER, PACK_BOX>>

MAX_PAGES == MaxPagesBound

clean_url(url) == Strip(SplitOn(url, " - ")[1])

detect_pack_type(url) ==
    IF Contains(url, <<"/", "mini-gt", "-blister-pack", "/">>)
    THEN PACK_BLISTER
    ELSE PACK_BOX

\* product_monitor.py: f"{pack_type}::{name.lower().strip()}"
normalize_key_pm(name, pack_type) == <<pack_type, "::">> \o Strip(Lower(name))

\* productmonitor_telegram.py: url.strip().lower()
normalize_key_tg(name, url) == Lower(Strip(url))

-----------------------------------------------------------------------------
(* Card extraction *)

\* A card: [title, href, onclick], each optional.
\*   title   : text of div.detail-text h3
\*   href    : href of the first <a href=...> of the card
\*   onclick : onclick attribute of div.detail-cover

\* link = onclick.split("'")[1]: the pieces of the split; indexing piece 1
\* (the second) raises IndexError when the text holds no quote.
OnclickPieces(onclick) == SplitOn(onclick, "'")

\* One iteration of "for card in cards", up to and including the
\* site-relative link resolution: [kind |-> "skip" | "raise" | "cand", name, url].
ExtractCard(card) ==
    LET skip   == [kind |-> "skip", name |-> <<>>, url |-> <<>>]
        raise  == [kind |-> "raise", name |-> <<>>, url |-> <<>>]
        primary ==
            IF card.href # None /\ Contains(card.href[1], <<"/", "product", "/">>)
            THEN card.href
            ELSE None
        useFallback ==
            /\ (primary = None \/ primary[1] = <<>>)
            /\ card.onclick # None
            /\ Contains(card.onclick[1], <<"window.location.href">>)
        pieces == OnclickPieces(card.onclick[1])
        link ==
            IF useFallback THEN Some(pieces[2]) ELSE primary
    IN  IF card.title = None THEN skip
        ELSE IF useFallback /\ Len(pieces) < 2 THEN raise
        ELSE IF link = None \/ link[1] = <<>> THEN skip
        ELSE [kind |-> "cand",
              name |-> Strip(card.title[1]),
              url  |-> IF StartsWith(link[1], <<"/">>)
                       THEN ORIGIN \o link[1]
                       ELSE link[1]]

\* The raw candidates (name + link) of a page, in card order.
RECURSIVE RawCandidates(_)
RawCandidates(cards) ==
    IF cards = <<>> THEN <<>>
    ELSE LET r == ExtractCard(Head(cards))
         IN  (IF r.kind = "cand" THEN <<[name |-> r.name, url |-> r.url]>> ELSE <<>>)
             \o RawCandidates(Tail(cards))

PageRaises(cards) == \E i \in 1..Len(cards) : ExtractCard(cards[i]).kind = "raise"

\* product_monitor.py: link = clean_url(link); kept only if "/product/mini-gt" in link
RECURSIVE KeepMiniGt(_)
KeepMiniGt(cands) ==
    IF cands = <<>> THEN <<>>
    ELSE LET c == [name |-> Head(cands).name, url |-> clean_url(Head(cands).url)]
         IN  (IF Contains(c.url, <<"/", "product", "/", "mini-gt">>) THEN <<c>> ELSE <<>>)
             \o KeepMiniGt(Tail(cands))

\* What fetch_products_from_page returns for a page that parsed without raising.
PageItems(v, cards) ==
    IF v = "pm" THEN KeepMiniGt(RawCandidates(cards)) ELSE RawCandidates(cards)

\* What one call of fetch_products_from_page on a fetched page amounts to.
PageOutcome(v, cards) ==
    [raises   |-> PageRaises(cards),
     rawEmpty |-> RawCandidates(cards) = <<>>,
     items    |-> IF PageRaises(cards) THEN <<>> ELSE PageItems(v, cards)]

-----------------------------------------------------------------------------
(* Snapshots: a mapping from key to [name, type, url] *)

EmptySnapshot == [k \in {} |-> [name |-> <<>>, type |-> "", url |-> <<>>]]

\* Python: d[k] = v
Put(d, k, v) == [x \in (DOMAIN d) \cup {k} |-> IF x = k THEN v ELSE d[x]]

\* product_monitor.py, body of "for name, link in items"
MergeItemPm(acc, item) ==
    LET pack_type == detect_pack_type(item.url)
        key == normalize_key_pm(item.name, pack_type)
    IN  Put(acc, key, [name |-> item.name, type |-> pack_type, url |-> item.url])

\* productmonitor_telegram.py, body of "for p in page_products"
MergeItemTg(label, acc, item) ==
    IF label = PACK_BLISTER /\ Contains(item.url, <<"mini-gt", "-blister-pack">>)
    THEN Put(acc, normalize_key_tg(item.name, item.url),
             [name |-> item.name, type |-> "Blister", url |-> item.url])
    ELSE IF label = PACK_BOX
            /\ Contains(item.url, <<"/", "product", "/", "mini-gt", "/">>)
    THEN Put(acc, normalize_key_tg(item.name, item.url),
             [name |-> item.name, type |-> "Box", url |-> item.url])
    ELSE acc

RECURSIVE MergeItems(_, _, _, _)
MergeItems(v, label, acc, items) ==
    IF items = <<>> THEN acc
    ELSE MergeItems(v, label,
                    IF v = "pm" THEN MergeItemPm(acc, Head(items))
                                ELSE MergeItemTg(label, acc, Head(items)),
                    Tail(items))

-----------------------------------------------------------------------------
(* Snapshot store: json.dump / json.load *)

QUOTE == "\""
BACKSLASH == "\\"

\* Mutant of EscapeText: the text is written as it is.
EscapeTextNone(s) == s

\* JSON string body: a quote or a backslash is written behind a backslash.
RECURSIVE EscapeText(_)
EscapeText(s) ==
    IF s = <<>> THEN <<>>
    ELSE (IF Head(s) \in {QUOTE, BACKSLASH} THEN <<BACKSLASH, Head(s)>> ELSE <<Head(s)>>)
         \o EscapeText(Tail(s))

EncodeString(s) == <<QUOTE>> \o EscapeText(s) \o <<QUOTE>>

\* The text of a JSON string body up to its closing quote.
RECURSIVE UnescapeText(_)
UnescapeText(t) ==
    IF t = <<>> \/ Head(t) = QUOTE THEN <<>>
    ELSE IF Head(t) = BACKSLASH /\ Len(t) >= 2
         THEN <<t[2]>> \o UnescapeText(SubSeq(t, 3, Len(t)))
         ELSE <<Head(t)>> \o UnescapeText(Tail(t))

DecodeString(t) == UnescapeText(Tail(t))

\* The keys of a dict, one after the other.
RECURSIVE KeyOrder(_)
KeyOrder(S) ==
    IF S = {} THEN <<>>
    ELSE LET k == CHOOSE x \in S : TRUE IN <<k>> \o KeyOrder(S \ {k})

\* One "key": {"name": ..., "type": ..., "url": ...} member of the file.
\* (productmonitor_telegram.py writes "type" first; json.load finds the
\* members by name.)
EncodeMember(k, rec) ==
    [key |-> EncodeString(k),
     value |-> << <<EncodeString(<<"name">>), EncodeString(rec.name)>>,
                  <<EncodeString(<<"type">>), EncodeString(<<rec.type>>)>>,
                  <<EncodeString(<<"url">>), EncodeString(rec.url)>> >>]

\* json.dump(products, f, indent=2): the text written to DATA_FILE.
JsonDump(products) ==
    LET order == KeyOrder(DOMAIN products)
    IN  [i \in 1..Len(order) |-> EncodeMember(order[i], products[order[i]])]

Field(obj, fname) ==
    LET i == CHOOSE j \in 1..Len(obj) : DecodeString(obj[j][1]) = <<fname>>
    IN  DecodeString(obj[i][2])

DecodeRecord(obj) ==
    [name |-> Field(obj, "name"),
     type |-> Field(obj, "type")[1],
     url  |-> Field(obj, "url")]

\* json.load(f): the members in file order, a repeated key keeps the last.
RECURSIVE JsonLoad(_)
JsonLoad(text) ==
    IF text = <<>> THEN EmptySnapshot
    ELSE LET n == Len(text)
         IN  Put(JsonLoad(SubSeq(text, 1, n - 1)),
                 DecodeString(text[n].key), DecodeRecord(text[n].value))

load_previous_products(f) == IF f # None THEN JsonLoad(f[1]) ELSE EmptySnapshot

save_products(products) == Some(JsonDump(products))

-----------------------------------------------------------------------------
(* Diff engine and report *)

\* Mutant of AddedKeys: the operands of the set difference swapped.
AddedKeysSwapped(prev, cur) == (DOMAIN prev) \ (DOMAIN cur)

AddedKeys(prev, cur) == (DOMAIN cur) \ (DOMAIN prev)
RemovedKeys(prev, cur) == (DOMAIN prev) \ (DOMAIN cur)

Line(kind, section, pack, name, url, n) ==
    [kind |-> kind, section |-> section, pack |-> pack,
     name |-> name, url |-> url, n |-> n]

CountType(cur, t) == Cardinality({k \in DOMAIN cur : cur[k].type = t})

\* product_monitor.py: group(keys, source)[pack], as a sequence
GroupPm(keys, source, pack) ==
    LET order == KeyOrder({k \in keys : source[k].type = pack})
    IN  [i \in 1..Len(order) |-> source[order[i]]]

RECURSIVE ItemLinesPm(_, _, _)
ItemLinesPm(section, items, show_url) ==
    IF items = <<>> THEN <<>>
    ELSE <<Line("item", section, "", Head(items).name, <<>>, 0)>>
         \o (IF show_url THEN <<Line("url", section, "", <<>>, Head(items).url, 0)>>
                         ELSE <<>>)
         \o ItemLinesPm(section, Tail(items), show_url)

\* product_monitor.py: one pack of render(title, data, show_url)
RenderPackPm(section, items, pack, show_url) ==
    <<Line("pack", section, pack, <<>>, <<>>, Len(items))>>
    \o (IF items = <<>> THEN <<Line("none", section, pack, <<>>, <<>>, 0)>> ELSE <<>>)
    \o ItemLinesPm(section, items, show_url)
    \o <<Line("blank", section, pack, <<>>, <<>>, 0)>>

RenderPm(section, keys, source, show_url) ==
    <<Line("title", section, "", <<>>, <<>>, 0)>>
    \o RenderPackPm(section, GroupPm(keys, source, PACK_BOX), PACK_BOX, show_url)
    \o RenderPackPm(section, GroupPm(keys, source, PACK_BLISTER), PACK_BLISTER, show_url)

\* Mutant of NoChanges: only the added set is looked at.
NoChangesAddedOnly(added, removed) == added = {}

NoChanges(added, removed) == added = {} /\ removed = {}

NoChangesLine == Line("nochanges", "", "", <<>>, <<>>, 0)

MessagePm(prev, cur, added, removed) ==
    <<Line("header", "", "", <<>>, <<>>, 0),
      Line("count", "", PACK_BOX, <<>>, <<>>, CountType(cur, PACK_BOX)),
      Line("count", "", PACK_BLISTER, <<>>, <<>>, CountType(cur, PACK_BLISTER))>>
    \o RenderPm("added", added, cur, TRUE)
    \o RenderPm("removed", removed, prev, FALSE)
    \o (IF NoChanges(added, removed) THEN <<NoChangesLine>> ELSE <<>>)

RECURSIVE EntriesTg(_, _, _, _)
EntriesTg(section, order, source, show_url) ==
    IF order = <<>> THEN <<>>
    ELSE LET p == source[Head(order)]
         IN  <<Line("item", section, p.type, p.name, <<>>, 0)>>
             \o (IF show_url THEN <<Line("url", section, "", <<>>, p.url, 0)>> ELSE <<>>)
             \o <<Line("blank", section, "", <<>>, <<>>, 0)>>
             \o EntriesTg(section, Tail(order), source, show_url)

SectionTg(section, keys, source, show_url) ==
    IF keys # {}
    THEN <<Line("title", section, "", <<>>, <<>>, 0)>>
         \o EntriesTg(section, KeyOrder(keys), source, show_url)
    ELSE <<>>

MessageTg(prev, cur, added, removed) ==
    <<Line("header", "", "", <<>>, <<>>, 0),
      Line("count", "", PACK_BOX, <<>>, <<>>, CountType(cur, "Box")),
      Line("count", "", PACK_BLISTER, <<>>, <<>>, CountType(cur, "Blister"))>>
    \o SectionTg("added", added, cur, TRUE)
    \o SectionTg("removed", removed, prev, FALSE)
    \o (IF NoChanges(added, removed) THEN <<NoChangesLine>> ELSE <<>>)

BuildMessage(v, prev, cur, added, removed) ==
    IF v = "pm" THEN MessagePm(prev, cur, added, removed)
                ELSE MessageTg(prev, cur, added, removed)

-----------------------------------------------------------------------------
(* The site: the cards a listing page may hold *)

BoxPath(tail) == <<"/", "product", "/", "mini-gt", "/", "s1", "/", tail>>

Redirect(url) == <<"window.location.href", "=", "'">> \o url \o <<"'", ";">>

Card(title, href, onclick) == [title |-> title, href |-> href, onclick |-> onclick]

\* a box product, linked by its anchor, absolute URL
CardBoxAnchor == Card(Some(<<"M">>), Some(ORIGIN \o BoxPath("t1")), None)
\* the same box product under another encoded tail, linked by the cover's redirect
CardBoxOnclick == Card(Some(<<"m", " ">>), None, Some(Redirect(BoxPath("t2"))))
\* a blister product, site-relative URL with a " - " decoration
CardBlister ==
    Card(Some(<<"g", QUOTE>>),
         Some(<<"/", "product", "/", "mini-gt", "-blister-pack", "/", "S1", "/", "T1",
                " - ", "junk">>),
         None)
\* a product of another brand
CardOther ==
    Card(Some(<<"h">>), Some(ORIGIN \o <<"/", "product", "/", "hot-wheels", "/", "s1">>), None)
\* no heading element
CardNoHeading == Card(None, Some(ORIGIN \o BoxPath("t1")), None)
\* neither a product anchor nor a redirect
CardNoLink == Card(Some(<<"m">>), Some(<<"/", "details", "/", "s1">>), Some(<<"openModal()">>))
\* a redirect written without single quotes
CardBareRedirect ==
    Card(Some(<<"m">>), None, Some(<<"window.location.href", "=", "productUrl", ";">>))

Cards == {CardBoxAnchor, CardBoxOnclick, CardBlister, CardOther,
          CardNoHeading, CardNoLink, CardBareRedirect}

\* The markup of one page: up to MaxCards cards.
Pages == UNION {[1..n -> Cards] : n \in 0..MaxCards}

\* The outcomes of fetch_products_from_page over all pages, per script.
PageOutcomes == [v \in {"pm", "tg"} |-> {PageOutcome(v, cards) : cards \in Pages}]

-----------------------------------------------------------------------------
(* Configuration read from the environment at import *)

EnvVars == {"GMAIL_USER", "GMAIL_APP_PASSWORD", "TELEGRAM_BOT_TOKEN", "TELEGRAM_CHAT_ID"}

\* TRUE: the variable is set to a non-empty value.  The Telegram-only script
\* reads no Gmail variable.
Envs(v) ==
    {e \in [EnvVars -> BOOLEAN] :
        v = "tg" => ~e["GMAIL_USER"] /\ ~e["GMAIL_APP_PASSWORD"]}

\* not (not EMAIL_FROM or not EMAIL_PASSWORD)
EmailConfigured(e) == e["GMAIL_USER"] /\ e["GMAIL_APP_PASSWORD"]

\* Mutant of TelegramConfigured: one of the two variables is enough.
TelegramConfiguredAny(e) == e["TELEGRAM_BOT_TOKEN"] \/ e["TELEGRAM_CHAT_ID"]

\* not (not TELEGRAM_BOT_TOKEN or not TELEGRAM_CHAT_ID)
TelegramConfigured(e) == e["TELEGRAM_BOT_TOKEN"] /\ e["TELEGRAM_CHAT_ID"]

Channels(v) == IF v = "pm" THEN {"email", "telegram"} ELSE {"telegram"}

\* One notifier invocation: net = a network call was issued, failed = it raised.
Call(ch, kind, net, failed) == [ch |-> ch, kind |-> kind, net |-> net, failed |-> failed]

\* The invocations send_email / send_telegram can amount to.
SendOutcomes(ch, kind, configured) ==
    IF ~configured
    THEN {Call(ch, kind, FALSE, FALSE)}
    ELSE {Call(ch, kind, TRUE, failed) : failed \in BOOLEAN}

-----------------------------------------------------------------------------
(* The run *)

NoCand == [name |-> <<>>, url |-> <<>>]

Init ==
    /\ variant \in {"pm", "tg"}
    /\ env \in Envs(variant)
    /\ file = None
    /\ pc = "idle"
    /\ previous = EmptySnapshot
    /\ current = EmptySnapshot
    /\ src = 1
    /\ page = 1
    /\ fetches = [s \in 1..Len(Sources) |-> 0]
    /\ rawEmptyAt = [s \in 1..Len(Sources) |-> 0]
    /\ added_keys = {}
    /\ removed_keys = {}
    /\ message = <<>>
    /\ calls = {}
    /\ exc = "none"
    /\ exit = "running"
    /\ fileAtStart = None
    /\ lastSaved = None
    /\ candA = NoCand /\ candB = NoCand
    /\ keyA = None /\ keyB = None

study == <<candA, candB, keyA, keyB>>

\* The scheduler starts the script: main() up to the walk.
StartRun ==
    /\ pc \in {"idle", "done", "aborted"}
    /\ previous' = load_previous_products(file)
    /\ current' = EmptySnapshot
    /\ src' = 1
    /\ page' = 1
    /\ fetches' = [s \in 1..Len(Sources) |-> 0]
    /\ rawEmptyAt' = [s \in 1..Len(Sources) |-> 0]
    /\ added_keys' = {}
    /\ removed_keys' = {}
    /\ message' = <<>>
    /\ calls' = {}
    /\ exc' = "none"
    /\ exit' = "running"
    /\ fileAtStart' = file
    /\ pc' = "walk"
    /\ UNCHANGED <<variant, env, file, lastSaved, study>>

\* Mutant of Raised: the exception is swallowed and the walk goes on.
RaisedSwallowed(e) == exc' = e /\ pc' = pc /\ exit' = exit

\* An exception leaves main(): product_monitor.py enters its except block,
\* productmonitor_telegram.py ends with the traceback.
Raised(e) ==
    /\ exc' = e
    /\ IF variant = "pm"
       THEN pc' = "handler_telegram" /\ exit' = exit
       ELSE pc' = "aborted" /\ exit' = "error"

\* requests.get or raise_for_status raises.
FetchFails ==
    /\ pc = "walk"
    /\ fetches' = [fetches EXCEPT ![src] = @ + 1]
    /\ Raised("TransportError")
    /\ UNCHANGED <<variant, env, file, previous, current, src, page, rawEmptyAt,
                   added_keys, removed_keys, message, calls, fileAtStart,
                   lastSaved, study>>

\* The page is fetched and onclick.split("'")[1] raises on one of its cards.
ExtractRaises ==
    /\ pc = "walk"
    /\ \E o \in PageOutcomes[variant] : o.raises
    /\ fetches' = [fetches EXCEPT ![src] = @ + 1]
    /\ Raised("IndexError")
    /\ UNCHANGED <<variant, env, file, previous, current, src, page, rawEmptyAt,
                   added_keys, removed_keys, message, calls, fileAtStart,
                   lastSaved, study>>

\* "break" / end of range(1, MAX_PAGES + 1): on to the next source, or out of
\* fetch_all_products.
NextSource ==
    IF src < Len(Sources)
    THEN src' = src + 1 /\ page' = 1 /\ pc' = pc
    ELSE src' = src /\ page' = page /\ pc' = "diff"

\* The page loop goes on while the page returned items and range() has a next value.
LoopContinues(items, pg) == items # <<>> /\ pg < MAX_PAGES

\* One iteration of the page loop whose fetch and extraction succeed.
FetchPage ==
    /\ pc = "walk"
    /\ \E o \in PageOutcomes[variant] :
        /\ ~o.raises
        /\ fetches' = [fetches EXCEPT ![src] = @ + 1]
        /\ rawEmptyAt' =
             IF rawEmptyAt[src] = 0 /\ o.rawEmpty
             THEN [rawEmptyAt EXCEPT ![src] = page]
             ELSE rawEmptyAt
        /\ current' = MergeItems(variant, Sources[src], current, o.items)
        /\ IF LoopContinues(o.items, page)
           THEN page' = page + 1 /\ src' = src /\ pc' = pc
           ELSE NextSource
    /\ UNCHANGED <<variant, env, file, previous, added_keys, removed_keys, message,
                   calls, exc, exit, fileAtStart, lastSaved, study>>

\* main(): the change set and the report.
DiffAndReport ==
    /\ pc = "diff"
    /\ added_keys' = AddedKeys(previous, current)
    /\ removed_keys' = RemovedKeys(previous, current)
    /\ message' = BuildMessage(variant, previous, current,
                               AddedKeys(previous, current),
                               RemovedKeys(previous, current))
    /\ pc' = IF variant = "pm" THEN "send_email" ELSE "send_telegram"
    /\ UNCHANGED <<variant, env, file, previous, current, src, page, fetches,
                   rawEmptyAt, calls, exc, exit, fileAtStart, lastSaved, study>>

\* product_monitor.py: send_email(subject, message); a failure is caught and printed.
SendEmailReport ==
    /\ pc = "send_email"
    /\ \E c \in SendOutcomes("email", "report", EmailConfigured(env)) :
          calls' = calls \cup {c}
    /\ pc' = "send_telegram"
    /\ UNCHANGED <<variant, env, file, previous, current, src, page, fetches,
                   rawEmptyAt, added_keys, removed_keys, message, exc, exit,
                   fileAtStart, lastSaved, study>>

\* TRUE when send_telegram lets the failure of requests.post out.
TelegramFailurePropagates(v) == v = "tg"

\* send_telegram(message)
SendTelegramReport ==
    /\ pc = "send_telegram"
    /\ \E c \in SendOutcomes("telegram", "report", TelegramConfigured(env)) :
          /\ calls' = calls \cup {c}
          /\ IF c.failed /\ TelegramFailurePropagates(variant)
             THEN Raised("NotifyError")
             ELSE pc' = "save" /\ exc' = exc /\ exit' = exit
    /\ UNCHANGED <<variant, env, file, previous, current, src, page, fetches,
                   rawEmptyAt, added_keys, removed_keys, message,
                   fileAtStart, lastSaved, study>>

\* save_products(current), then main() returns.
SaveProducts ==
    /\ pc = "save"
    /\ file' = save_products(current)
    /\ lastSaved' = Some(current)
    /\ pc' = "done"
    /\ exit' = "ok"
    /\ UNCHANGED <<variant, env, previous, current, src, page, fetches,
                   rawEmptyAt, added_keys, removed_keys, message, calls, exc,
                   fileAtStart, study>>

\* product_monitor.py, except block: send_telegram(error)
HandlerTelegram ==
    /\ pc = "handler_telegram"
    /\ \E c \in SendOutcomes("telegram", "failure", TelegramConfigured(env)) :
          calls' = calls \cup {c}
    /\ pc' = "handler_email"
    /\ UNCHANGED <<variant, env, file, previous, current, src, page, fetches,
                   rawEmptyAt, added_keys, removed_keys, message, exc, exit,
                   fileAtStart, lastSaved, study>>

\* product_monitor.py, except block: send_email(subject, error), then raise
HandlerEmail ==
    /\ pc = "handler_email"
    /\ \E c \in SendOutcomes("email", "failure", EmailConfigured(env)) :
          calls' = calls \cup {c}
    /\ pc' = "aborted"
    /\ exit' = "error"
    /\ UNCHANGED <<variant, env, file, previous, current, src, page, fetches,
                   rawEmptyAt, added_keys, removed_keys, message, exc,
                   fileAtStart, lastSaved, study>>

Next ==
    \/ StartRun
    \/ FetchFails
    \/ ExtractRaises
    \/ FetchPage
    \/ DiffAndReport
    \/ SendEmailReport
    \/ SendTelegramReport
    \/ SaveProducts
    \/ HandlerTelegram
    \/ HandlerEmail

Spec == Init /\ [][Next]_vars

-----------------------------------------------------------------------------
(* Key normalisation on its own: two raw candidates found under one source *)

StudyNames ==
    {<<"m">>, <<"M">>, <<"m", " ", "g">>, <<"m", " ", " ", "g">>, <<"M", " ", "g">>}

StudyUrls ==
    {ORIGIN \o BoxPath("t1"),
     ORIGIN \o BoxPath("t2"),
     ORIGIN \o BoxPath("t1") \o <<" - ", "junk">>,
     ORIGIN \o <<"/", "product", "/", "mini-gt", "-blister-pack", "/", "s1", "/", "t1">>,
     ORIGIN \o <<"/", "product", "/", "mini-gt", "-blister-pack", "/", "s1", "/", "t2">>}

StudyCands == [name : StudyNames, url : StudyUrls]

\* The keys under which fetch_all_products files one raw candidate found on a
\* page of the source labelled label (none when the candidate is dropped).
CandidateKeys(v, label, cand) ==
    DOMAIN MergeItems(v, label, EmptySnapshot,
                      IF v = "pm" THEN KeepMiniGt(<<cand>>) ELSE <<cand>>)

InitStudy ==
    /\ variant \in {"pm", "tg"}
    /\ env = [x \in EnvVars |-> FALSE]
    /\ file = None
    /\ pc = "idle"
    /\ previous = EmptySnapshot
    /\ current = EmptySnapshot
    /\ src \in 1..Len(Sources)
    /\ page = 1
    /\ fetches = [s \in 1..Len(Sources) |-> 0]
    /\ rawEmptyAt = [s \in 1..Len(Sources) |-> 0]
    /\ added_keys = {}
    /\ removed_keys = {}
    /\ message = <<>>
    /\ calls = {}
    /\ exc = "none"
    /\ exit = "running"
    /\ fileAtStart = None
    /\ lastSaved = None
    /\ candA \in StudyCands /\ candB \in StudyCands
    /\ keyA = None /\ keyB = None

NormalizeKeys ==
    /\ pc = "idle"
    /\ keyA' = Some(CandidateKeys(variant, Sources[src], candA))
    /\ keyB' = Some(CandidateKeys(variant, Sources[src], candB))
    /\ pc' = "studied"
    /\ UNCHANGED <<variant, env, file, previous, current, src, page, fetches,
                   rawEmptyAt, added_keys, removed_keys, message, calls, exc,
                   exit, fileAtStart, lastSaved, candA, candB>>

NextStudy == NormalizeKeys

SpecKey == InitStudy /\ [][NextStudy]_vars

-----------------------------------------------------------------------------
(* Properties *)

\* The walk of this run ended without an exception.
Scraped == pc \in {"diff", "send_email", "send_telegram", "save", "done"}
           \/ exc = "NotifyError"

\* The change set and the report of this run exist.
Diffed == message # <<>>

RunEnded == pc \in {"done", "aborted"}

Called(ch, kind) == \E c \in calls : c.ch = ch /\ c.kind = kind

LastSavedSnapshot == IF lastSaved = None THEN EmptySnapshot ELSE lastSaved[1]

\* C1: the change set of a run is added = the keys of the current snapshot
\* that are not in the previous one, removed = the keys of the previous
\* snapshot that are not in the current one; the two sets are disjoint, equal
\* key sets give two empty sets, and a snapshot that only grew (only shrank)
\* gives exactly the new (the lost) keys as added (removed) and nothing as
\* removed (added).
C1_ChangeSet ==
    Diffed =>
        LET P == DOMAIN previous
            C == DOMAIN current
        IN  /\ \A k \in P \cup C \cup added_keys \cup removed_keys :
                  /\ k \in added_keys <=> (k \in C /\ k \notin P)
                  /\ k \in removed_keys <=> (k \in P /\ k \notin C)
            /\ added_keys \cap removed_keys = {}
            /\ P = C => added_keys = {} /\ removed_keys = {}
            /\ P \subseteq C => removed_keys = {} /\ P \cup added_keys = C
            /\ C \subseteq P => added_keys = {} /\ C \cup removed_keys = P

\* previous {A, B}, current {B, C}: one key added, one removed, one kept.
C1_Witness ==
    /\ Diffed
    /\ Cardinality(added_keys) = 1
    /\ Cardinality(removed_keys) = 1
    /\ (DOMAIN previous) \cap (DOMAIN current) # {}

\* C2: for every source whose walk ended, the number of fetch calls is the
\* index of the first page with zero raw candidates, or MAX_PAGES when no
\* fetched page had zero raw candidates.
C2_StopsAtFirstPageWithoutRawCandidates ==
    \A s \in 1..Len(Sources) :
        (pc # "idle" /\ (s < src \/ Scraped)) =>
            fetches[s] = IF rawEmptyAt[s] = 0 THEN MAX_PAGES ELSE rawEmptyAt[s]

\* C3: after a fetch failure the run is on its way out: the failed fetch was
\* issued once, no later source was fetched, no change report exists or was
\* sent, and the snapshot file is what it was when the run started, which is
\* what the last completed run saved.
C3_FetchFailureAborts ==
    exc = "TransportError" =>
        /\ pc \in {"handler_telegram", "handler_email", "aborted"}
        /\ fetches[src] = page
        /\ \A s \in 1..Len(Sources) : s > src => fetches[s] = 0
        /\ ~Diffed
        /\ \A c \in calls : c.kind # "report"
        /\ file = fileAtStart
        /\ load_previous_products(file) = LastSavedSnapshot

\* A run that had saved before fails on the second page of a source after
\* the first page gave products.
C3_Witness ==
    /\ exc = "TransportError"
    /\ pc = "aborted"
    /\ page = 2
    /\ current # EmptySnapshot
    /\ file # None

\* C4: a run that ended on a fetch failure has invoked every notification
\* channel with the failure report and exits with an error.
C4_FailureReported ==
    (pc = "aborted" /\ exc = "TransportError") =>
        /\ exit = "error"
        /\ \A ch \in Channels(variant) : Called(ch, "failure")

\* C5: a run whose scraping succeeded and that has ended has invoked every
\* channel with the report and left the snapshot file equal to the current
\* snapshot, whatever the channels' outcomes.
C5_DeliveryFailureTolerated ==
    (Diffed /\ RunEnded) =>
        /\ \A ch \in Channels(variant) : Called(ch, "report")
        /\ load_previous_products(file) = current

\* C6: a channel whose credentials are absent issues no network call and
\* raises nothing; with no channel configured, a run whose scraping succeeded
\* ends completed, with the current snapshot persisted.
C6_AbsentCredentialsNoOp ==
    LET emailAbsent == ~(env["GMAIL_USER"] /\ env["GMAIL_APP_PASSWORD"])
        telegramAbsent == ~(env["TELEGRAM_BOT_TOKEN"] /\ env["TELEGRAM_CHAT_ID"])
    IN  /\ \A c \in calls :
              /\ (c.ch = "email" /\ emailAbsent) => (~c.net /\ ~c.failed)
              /\ (c.ch = "telegram" /\ telegramAbsent) => (~c.net /\ ~c.failed)
        /\ telegramAbsent => exc # "NotifyError"
        /\ (emailAbsent /\ telegramAbsent /\ Scraped /\ RunEnded) =>
              /\ pc = "done"
              /\ exit = "ok"
              /\ \A ch \in Channels(variant) : Called(ch, "report")
              /\ load_previous_products(file) = current

\* No variable set at all: both notifiers were invoked and the run completed
\* with products to persist.
C6_Witness ==
    /\ variant = "pm"
    /\ \A x \in EnvVars : ~env[x]
    /\ pc = "done"
    /\ current # EmptySnapshot
    /\ Cardinality(calls) = 2

\* C7: loading the file gives back the snapshot that was saved; the previous
\* snapshot of a run is the snapshot saved by the last completed run; a run
\* that scrapes the key set the last completed run saved has an empty change
\* set.
C7_RoundTrip ==
    /\ lastSaved # None => load_previous_products(file) = lastSaved[1]
    /\ pc \notin {"idle", "done"} => previous = LastSavedSnapshot
    /\ (Diffed /\ pc # "done" /\ DOMAIN current = DOMAIN LastSavedSnapshot) =>
          added_keys = {} /\ removed_keys = {}

\* The second of two completed runs scrapes the same products, one of them
\* with a quote in its name.
C7_Witness ==
    /\ pc = "save"
    /\ lastSaved # None
    /\ current = lastSaved[1]
    /\ \E k \in DOMAIN current : Contains(current[k].name, <<QUOTE>>)
    /\ added_keys = {} /\ removed_keys = {}

\* A raw candidate whose name or link is only cosmetically different.
RECURSIVE CollapseSpaces(_)
CollapseSpaces(s) ==
    IF Len(s) < 2 THEN s
    ELSE IF IsSpace(s[1]) /\ IsSpace(s[2]) THEN CollapseSpaces(Tail(s))
    ELSE <<Head(s)>> \o CollapseSpaces(Tail(s))

FoldName(n) == Strip(CollapseSpaces(Lower(n)))

SameButTail(u, w) ==
    /\ Len(u) = Len(w)
    /\ Len(u) > 0
    /\ SubSeq(u, 1, Len(u) - 1) = SubSeq(w, 1, Len(w) - 1)

\* C8: two raw candidates of the same pack type that differ only in the
\* encoded tail of the URL, or only in case or whitespace of the name, are
\* filed under the same key.
C8_StableKey ==
    (/\ pc = "studied"
     /\ \/ candA.name = candB.name /\ SameButTail(candA.url, candB.url)
        \/ candA.url = candB.url /\ FoldName(candA.name) = FoldName(candB.name))
    => keyA = keyB

ItemLines(section) ==
    {i \in 1..Len(message) : message[i].kind = "item" /\ message[i].section = section}

\* C9: the report has as many added entries as added keys, one with the name
\* and the URL of the current snapshot for every added key; as many removed
\* entries as removed keys, one with the name of the previous snapshot for
\* every removed key and none followed by a URL; and the no-changes line if
\* and only if both sets are empty.
C9_Report ==
    Diffed =>
        /\ Cardinality(ItemLines("added")) = Cardinality(added_keys)
        /\ \A k \in added_keys : \E i \in ItemLines("added") :
              /\ message[i].name = current[k].name
              /\ i < Len(message)
              /\ message[i + 1].kind = "url"
              /\ message[i + 1].url = current[k].url
        /\ Cardinality(ItemLines("removed")) = Cardinality(removed_keys)
        /\ \A k \in removed_keys : \E i \in ItemLines("removed") :
              message[i].name = previous[k].name
        /\ \A i \in ItemLines("removed") :
              i < Len(message) => message[i + 1].kind # "url"
        /\ (\E i \in 1..Len(message) : message[i] = NoChangesLine)
              <=> (added_keys = {} /\ removed_keys = {})

\* product_monitor.py reports one product added and another one removed.
C9_Witness ==
    /\ variant = "pm"
    /\ pc = "save"
    /\ Cardinality(added_keys) = 1
    /\ Cardinality(removed_keys) = 1

\* C10: no run ends because card extraction raised on an unusable card.
C10_ExtractionNeverRaises == exc # "IndexError"

====
